---- MODULE Spec2Model ----
(***************************************************************************)
(* Model of task-fastapi/main.py: the in-memory dog store DB_DOGS and the  *)
(* request handlers that read and mutate it.                               *)
(*                                                                         *)
(* A Python value is modelled as a tagged record [t, i, s]: t is the       *)
(* Python type ("none", "int", "str", "bool"), i the integer payload and   *)
(* s the string payload (a sequence of one-character strings).  A Dog is a *)
(* record of six such values.  DB_DOGS, a dict, is a sequence of           *)
(* [key, dog] entries with distinct keys, in insertion order.              *)
(***************************************************************************)
EXTENDS Integers, Sequences, FiniteSets

VARIABLES DB_DOGS, last, prev, autoIds, order, pc, loc, serialized

vars == <<DB_DOGS, last, prev, autoIds, order, pc, loc, serialized>>

(* ------------------------------ bounds -------------------------------- *)

\* largest primary key a request may supply or be assigned
MaxPk == 2

\* number of concurrently served requests in the threaded model
NumWorkers == 3

(* --------------------------- Python values ---------------------------- *)

NoneV == [t |-> "none", i |-> 0, s |-> <<>>]

IntV(n) == [t |-> "int", i |-> n, s |-> <<>>]

StrV(x) == [t |-> "str", i |-> 0, s |-> x]

BoolV(b) == [t |-> "bool", i |-> (IF b THEN 1 ELSE 0), s |-> <<>>]

\* a test for None only
FalsyNoneOnly(v) == v.t = "none"

\* Python truthiness of an Optional[int]: None and 0 are falsy
Falsy(v) == v.t = "none" \/ (v.t = "int" /\ v.i = 0)

\* str.lower() on one character
LowerChar(c) ==
  CASE c = "R" -> "r"
    [] c = "E" -> "e"
    [] c = "X" -> "x"
    [] c = "B" -> "b"
    [] c = "O" -> "o"
    [] OTHER -> c

\* a lower() that leaves the text as it is
LowerAsIs(x) == x

\* str.lower()
Lower(x) == [n \in 1..Len(x) |-> LowerChar(x[n])]

(* ------------------------------ DogType ------------------------------- *)

terrier == <<"t", "e", "r", "r", "i", "e", "r">>

bulldog == <<"b", "u", "l", "l", "d", "o", "g">>

dalmatian == <<"d", "a", "l", "m", "a", "t", "i", "a", "n">>

DogType == {terrier, bulldog, dalmatian}

(* -------------------------------- Dog --------------------------------- *)

\* the declared fields of the pydantic model Dog
DogFields == {"pk", "name", "kind", "age", "owner", "vaccinated"}

\* the Dog(...) constructor
Dog(pk, name, kind, age, owner, vaccinated) ==
  [pk |-> pk, name |-> name, kind |-> kind, age |-> age, owner |-> owner,
   vaccinated |-> vaccinated]

(* ------------------------- the dict DB_DOGS --------------------------- *)

Keys(db) == {db[n].key : n \in 1..Len(db)}

Has(db, k) == k \in Keys(db)

IndexOf(db, k) == CHOOSE n \in 1..Len(db) : db[n].key = k

\* DB_DOGS[k]
Get(db, k) == db[IndexOf(db, k)].dog

\* a store that appends an entry even when the key is present
PutAppend(db, k, dog) == Append(db, [key |-> k, dog |-> dog])

\* DB_DOGS[k] = dog: replaces in place, or appends a new key
Put(db, k, dog) ==
  IF Has(db, k)
    THEN [db EXCEPT ![IndexOf(db, k)] = [key |-> k, dog |-> dog]]
    ELSE Append(db, [key |-> k, dog |-> dog])

\* a pop that leaves the entry in the dict
PopKeep(db, k) == db

\* the dict left by DB_DOGS.pop(k)
Pop(db, k) == SelectSeq(db, LAMBDA e : e.key # k)

\* DB_DOGS.values()
Values(db) == [n \in 1..Len(db) |-> db[n].dog]

RECURSIVE MaxOf(_)
MaxOf(S) ==
  LET x == CHOOSE y \in S : TRUE
  IN IF S = {x} THEN x
     ELSE LET m == MaxOf(S \ {x}) IN IF x > m THEN x ELSE m

(* ------------------------------ results ------------------------------- *)

\* what a handler does: the response status, the returned dogs, the store left
Result(status, ret, db) == [status |-> status, ret |-> ret, db |-> db]

(* ------------------------------ handlers ------------------------------ *)

\* a list in the reverse of the dict's order
root_reversed(db) ==
  Result("ok", [n \in 1..Len(db) |-> db[Len(db) + 1 - n].dog], db)

\* GET /
root(db) == Result("ok", Values(db), db)

\* a filter by kind that answers 404 when nothing matches
get_dogs_or_404(db, kind) ==
  LET result == SelectSeq(Values(db), LAMBDA dog : dog.kind.s = kind)
  IN IF result = <<>>
       THEN Result("NotFound", <<>>, db)
       ELSE Result("ok", result, db)

\* GET /dog?kind=X
get_dogs(db, kind) ==
  Result("ok", SelectSeq(Values(db), LAMBDA dog : dog.kind.s = kind), db)

\* create_dog, lines 94-98: max(dog.pk for dog in DB_DOGS.values()) + 1
\* raises TypeError as soon as one stored pk is a str
PkRaises(db, dog) ==
  /\ Falsy(dog.pk)
  /\ \E n \in 1..Len(db) : db[n].dog.pk.t # "int"

\* create_dog, lines 93-98: the primary key the record is stored under
ComputePk(db, dog) ==
  IF Falsy(dog.pk)
    THEN IF db # <<>>
           THEN MaxOf({db[n].dog.pk.i : n \in 1..Len(db)}) + 1
           ELSE 1
    ELSE dog.pk.i

\* a copy that leaves vaccinated at its default
StoredDogDefaults(pk, dog) ==
  Dog(IntV(pk), dog.name, dog.kind, dog.age, dog.owner, BoolV(FALSE))

\* create_dog, lines 100-107: the normalized copy
StoredDog(pk, dog) ==
  Dog(IntV(pk), dog.name, dog.kind, dog.age, dog.owner, dog.vaccinated)

\* POST /dog
create_dog(db, dog) ==
  IF PkRaises(db, dog)
    THEN Result("InternalError", <<>>, db)
    ELSE LET pk == ComputePk(db, dog)
             db2 == Put(db, pk, StoredDog(pk, dog))
         IN Result("ok", <<Get(db2, pk)>>, db2)

\* GET /dog/search?name=X
search_dog_by_name(db, name) ==
  LET result == SelectSeq(Values(db), LAMBDA dog : Lower(dog.name.s) = Lower(name))
  IN IF result = <<>>
       THEN Result("NotFound", <<>>, db)
       ELSE Result("ok", result, db)

\* a lookup that takes the record out of the dict
get_dog_by_pk_popping(db, pk) ==
  IF Has(db, pk)
    THEN Result("ok", <<Get(db, pk)>>, Pop(db, pk))
    ELSE Result("NotFound", <<>>, db)

\* GET /dog/{pk}
get_dog_by_pk(db, pk) ==
  IF Has(db, pk)
    THEN Result("ok", <<Get(db, pk)>>, db)
    ELSE Result("NotFound", <<>>, db)

\* hasattr(current_dog, key): the declared fields, and every other attribute
\* the object has; "__class__" is one that every Python object has
HasAttr(key) == key \in DogFields \cup {"__class__"}

\* setattr(current_dog, key, value) stores the value, unvalidated, in a
\* declared field, and raises for a name that is no field (for "__class__",
\* a str is no class)
SetAttrRaises(key) == key \notin DogFields

\* a loop that assigns null values as well
RECURSIVE ApplyItemsWithNulls(_, _, _)
ApplyItemsWithNulls(dog, update_data, n) ==
  IF n > Len(update_data)
    THEN [dog |-> dog, raised |-> FALSE]
    ELSE ApplyItemsWithNulls([dog EXCEPT ![update_data[n].key] = update_data[n].value],
                             update_data, n + 1)

\* update_dog, lines 170-172: the loop from item n on, mutating dog in place;
\* a raise leaves the assignments already made
RECURSIVE ApplyItems(_, _, _)
ApplyItems(dog, update_data, n) ==
  IF n > Len(update_data)
    THEN [dog |-> dog, raised |-> FALSE]
    ELSE LET key == update_data[n].key
             value == update_data[n].value
         IN IF HasAttr(key) /\ value.t # "none"
              THEN IF SetAttrRaises(key)
                     THEN [dog |-> dog, raised |-> TRUE]
                     ELSE ApplyItems([dog EXCEPT ![key] = value], update_data, n + 1)
              ELSE ApplyItems(dog, update_data, n + 1)

\* PATCH /dog/{pk}; current_dog is the stored object itself, so that a raise
\* in the loop leaves the assignments already made in the store
update_dog(db, pk, update_data) ==
  IF ~Has(db, pk)
    THEN Result("NotFound", <<>>, db)
    ELSE LET current_dog == Get(db, pk)
             invalid_keys == SelectSeq(update_data, LAMBDA item : ~HasAttr(item.key))
         IN IF invalid_keys # <<>>
              THEN Result("InvalidField", <<>>, db)
              ELSE LET done == ApplyItems(current_dog, update_data, 1)
                   IN IF done.raised
                        THEN Result("InternalError", <<>>, Put(db, pk, done.dog))
                        ELSE Result("ok", <<done.dog>>, Put(db, pk, done.dog))

\* DELETE /dog/{pk}
delete_dog(db, pk) ==
  IF ~Has(db, pk)
    THEN Result("NotFound", <<>>, db)
    ELSE Result("ok", <<Get(db, pk)>>, Pop(db, pk))

(* ------------------------------- inputs ------------------------------- *)

Rex == <<"R", "e", "x">>

RexUpper == <<"R", "E", "X">>

Bo == <<"B", "o">>

Ann == <<"A", "n", "n">>

\* request bodies of POST /dog without their pk
Bodies ==
  { Dog(NoneV, StrV(Rex), StrV(terrier), IntV(3), StrV(Ann), BoolV(FALSE)),
    Dog(NoneV, StrV(Bo), StrV(bulldog), NoneV, NoneV, BoolV(TRUE)) }

\* pk of a request body: omitted, 0, or a positive integer
BodyPks == {NoneV} \cup {IntV(n) : n \in 0..MaxPk}

\* request bodies of POST /dog
InputDogs == {[dog EXCEPT !.pk = pk] : dog \in Bodies, pk \in BodyPks}

\* request bodies of POST /dog that omit the pk
OmittedDogs == {dog \in InputDogs : dog.pk = NoneV}

Item(key, value) == [key |-> key, value |-> value]

\* request bodies of PATCH /dog/{pk}: a Dict[str, Optional[str]] in item order
Patches ==
  { <<Item("age", StrV(<<"5">>))>>,
    <<Item("unknown_field", StrV(<<"x">>))>>,
    <<Item("age", StrV(<<"5">>)), Item("unknown_field", StrV(<<"x">>))>>,
    <<Item("pk", StrV(<<"7">>))>>,
    <<Item("age", NoneV), Item("kind", NoneV)>>,
    <<Item("owner", NoneV), Item("age", StrV(<<"5">>))>>,
    <<Item("__class__", NoneV)>>,
    <<Item("age", StrV(<<"5">>)), Item("__class__", StrV(<<"x">>))>> }

\* the pk of a path /dog/{pk}
PathPks == 1..MaxPk

\* the name of a query /dog/search?name=X
QueryNames == {Rex, RexUpper}

(* ------------------------------- state -------------------------------- *)

\* the last request served and its response; dog is <<>> or the one body
Request(op, pk, dog, update_data, q, r) ==
  [op |-> op, pk |-> pk, dog |-> dog, update_data |-> update_data, q |-> q,
   status |-> r.status, ret |-> r.ret]

Workers == 1..NumWorkers

IdleLoc == [pk |-> 0, dog |-> <<>>, ret |-> <<>>]

Init ==
  /\ DB_DOGS = <<>>
  /\ last = Request("init", 0, <<>>, <<>>, <<>>, Result("ok", <<>>, <<>>))
  /\ prev = <<>>
  /\ autoIds = [last |-> 0, before |-> 0]
  /\ order = [born |-> <<>>, keyed |-> <<>>]
  /\ pc = [w \in Workers |-> "idle"]
  /\ loc = [w \in Workers |-> IdleLoc]
  /\ serialized = TRUE

\* the bound of the model: the store holds keys of at most MaxPk
InBounds(db) == \A k \in Keys(db) : k <= MaxPk

\* one request served from start to end
Serve(op, pk, dog, update_data, q, r) ==
  /\ InBounds(r.db)
  /\ DB_DOGS' = r.db
  /\ prev' = DB_DOGS
  /\ last' = Request(op, pk, dog, update_data, q, r)
  /\ UNCHANGED <<pc, loc, serialized>>

Root ==
  /\ Serve("root", 0, <<>>, <<>>, <<>>, root(DB_DOGS))
  /\ UNCHANGED <<autoIds, order>>

GetDogs ==
  /\ \E kind \in DogType :
       Serve("get_dogs", 0, <<>>, <<>>, kind, get_dogs(DB_DOGS, kind))
  /\ UNCHANGED <<autoIds, order>>

CreateDog ==
  /\ \E dog \in InputDogs :
       Serve("create_dog", 0, <<dog>>, <<>>, <<>>, create_dog(DB_DOGS, dog))
  /\ UNCHANGED <<autoIds, order>>

SearchDogByName ==
  /\ \E name \in QueryNames :
       Serve("search_dog_by_name", 0, <<>>, <<>>, name,
             search_dog_by_name(DB_DOGS, name))
  /\ UNCHANGED <<autoIds, order>>

GetDogByPk ==
  /\ \E pk \in PathPks :
       Serve("get_dog_by_pk", pk, <<>>, <<>>, <<>>, get_dog_by_pk(DB_DOGS, pk))
  /\ UNCHANGED <<autoIds, order>>

UpdateDog ==
  /\ \E pk \in PathPks, update_data \in Patches :
       Serve("update_dog", pk, <<>>, update_data, <<>>,
             update_dog(DB_DOGS, pk, update_data))
  /\ UNCHANGED <<autoIds, order>>

DeleteDog ==
  /\ \E pk \in PathPks :
       Serve("delete_dog", pk, <<>>, <<>>, <<>>, delete_dog(DB_DOGS, pk))
  /\ UNCHANGED <<autoIds, order>>

Next ==
  \/ Root
  \/ GetDogs
  \/ CreateDog
  \/ SearchDogByName
  \/ GetDogByPk
  \/ UpdateDog
  \/ DeleteDog

Spec == Init /\ [][Next]_vars

(* ------- creates that omit the pk, deletes and lookups, only --------- *)

\* POST /dog without a pk; autoIds records the pk assigned and the one before
CreateOmitted ==
  \E dog \in OmittedDogs :
    /\ Serve("create_dog", 0, <<dog>>, <<>>, <<>>, create_dog(DB_DOGS, dog))
    /\ autoIds' = IF PkRaises(DB_DOGS, dog)
                    THEN autoIds
                    ELSE [last |-> ComputePk(DB_DOGS, dog), before |-> autoIds.last]
    /\ UNCHANGED order

DeleteAny ==
  /\ \E pk \in PathPks :
       Serve("delete_dog", pk, <<>>, <<>>, <<>>, delete_dog(DB_DOGS, pk))
  /\ UNCHANGED <<autoIds, order>>

\* GET /dog/{pk}, which leaves the store as it is
LookupAny ==
  /\ \E pk \in PathPks :
       Serve("get_dog_by_pk", pk, <<>>, <<>>, <<>>, get_dog_by_pk(DB_DOGS, pk))
  /\ UNCHANGED <<autoIds, order>>

NextCD ==
  \/ CreateOmitted
  \/ DeleteAny
  \/ LookupAny

SpecCD == Init /\ [][NextCD]_vars

\* C1: from an empty store, under creates that omit the pk and deletes only,
\* the first assigned pk is 1 and each later one is the previous one plus 1,
\* so no assigned pk is assigned again after its record was deleted.
C1_AssignedIdsSuccessive ==
  (last.op = "create_dog" /\ last.status = "ok")
    => /\ last.ret[1].pk = IntV(autoIds.last)
       /\ autoIds.last = autoIds.before + 1

(* ----------------------- claims on the store -------------------------- *)

\* the request served last was op
Served(op) == last.op = op

\* the identifiers of the live records, read off the dict's keys
LiveIds(db) == Keys(db)

\* the patch of the last request names a key that is no field of Dog
NamesUnrecognized(update_data) ==
  \E n \in 1..Len(update_data) : update_data[n].key \notin DogFields

\* C2: no two live records carry the same identifier.
C2_IdentifiersUnique ==
  \A m, n \in 1..Len(DB_DOGS) :
    m # n => DB_DOGS[m].dog.pk # DB_DOGS[n].dog.pk

\* C3: update of an existing record with a patch holding an unrecognized key
\* fails with InvalidField and changes nothing, whatever else the patch
\* holds; a patch of one recognized key with a non-null value changes that
\* field of that record and nothing else.
C3_UpdateAllOrNothing ==
  (Served("update_dog") /\ Has(prev, last.pk))
    => /\ NamesUnrecognized(last.update_data)
            => (last.status = "InvalidField" /\ DB_DOGS = prev)
       /\ ( /\ Len(last.update_data) = 1
            /\ last.update_data[1].key \in DogFields
            /\ last.update_data[1].value # NoneV )
            => /\ last.status = "ok"
               /\ Keys(DB_DOGS) = Keys(prev)
               /\ \A k \in Keys(prev) \ {last.pk} : Get(DB_DOGS, k) = Get(prev, k)
               /\ \A f \in DogFields \ {last.update_data[1].key} :
                    Get(DB_DOGS, last.pk)[f] = Get(prev, last.pk)[f]
               /\ Get(DB_DOGS, last.pk)[last.update_data[1].key]
                    = last.update_data[1].value

\* C5: create without a pk assigns the largest live identifier plus 1, or 1
\* in an empty store, stores the record under it and returns the stored record.
C5_OmittedPkIsMaxPlusOne ==
  (Served("create_dog") /\ last.dog[1].pk = NoneV)
    => LET pk == IF prev = <<>> THEN 1 ELSE MaxOf(LiveIds(prev)) + 1
       IN /\ last.status = "ok"
          /\ Len(last.ret) = 1
          /\ last.ret[1].pk = IntV(pk)
          /\ Has(DB_DOGS, pk)
          /\ Get(DB_DOGS, pk) = last.ret[1]

\* C6: delete of a present pk returns the record stored under it, removes it
\* and leaves the others as they were, so that a lookup of the pk then fails
\* with NotFound; delete of an absent pk fails with NotFound.
C6_DeleteReturnsAndRemoves ==
  Served("delete_dog")
    => IF Has(prev, last.pk)
         THEN /\ last.status = "ok"
              /\ last.ret = <<Get(prev, last.pk)>>
              /\ Keys(DB_DOGS) = Keys(prev) \ {last.pk}
              /\ \A k \in Keys(DB_DOGS) : Get(DB_DOGS, k) = Get(prev, k)
              /\ get_dog_by_pk(DB_DOGS, last.pk).status = "NotFound"
         ELSE /\ last.status = "NotFound"
              /\ DB_DOGS = prev

\* a delete removed one of two records
C6_Witness ==
  /\ Served("delete_dog")
  /\ last.status = "ok"
  /\ Len(prev) = 2
  /\ Len(DB_DOGS) = 1

\* C7: a lookup of the assigned pk right after a create succeeds and returns
\* the input's name, kind, age, owner and vaccinated under the assigned pk.
C7_CreateThenLookup ==
  (Served("create_dog") /\ last.status = "ok")
    => LET got == get_dog_by_pk(DB_DOGS, last.ret[1].pk.i)
       IN /\ got.status = "ok"
          /\ got.ret[1].pk = last.ret[1].pk
          /\ \A f \in DogFields \ {"pk"} : got.ret[1][f] = last.dog[1][f]

\* a create without a pk into a store that holds a record
C7_Witness ==
  /\ Served("create_dog")
  /\ last.status = "ok"
  /\ last.dog[1].pk = NoneV
  /\ last.dog[1].vaccinated = BoolV(TRUE)
  /\ prev # <<>>

\* upper- and lower-case forms of one letter
CasePairs == {<<"R", "r">>, <<"E", "e">>, <<"X", "x">>, <<"B", "b">>, <<"O", "o">>}

\* x and y are the same text up to letter case
SameIgnoringCase(x, y) ==
  /\ Len(x) = Len(y)
  /\ \A n \in 1..Len(x) :
       \/ x[n] = y[n]
       \/ <<x[n], y[n]>> \in CasePairs
       \/ <<y[n], x[n]>> \in CasePairs

\* C8: search by name returns the live records whose name is the query up to
\* letter case, the same for two queries that differ in case only; it fails
\* with NotFound exactly when there is none, and returns no empty list.
C8_SearchIgnoresCase ==
  Served("search_dog_by_name")
    => LET hit == {n \in 1..Len(prev) : SameIgnoringCase(prev[n].dog.name.s, last.q)}
       IN /\ (hit = {}) <=> (last.status = "NotFound")
          /\ (hit # {}) <=> (last.status = "ok")
          /\ last.status = "ok" => last.ret # <<>>
          /\ Len(last.ret) = Cardinality(hit)
          /\ \A n \in hit : \E m \in 1..Len(last.ret) : last.ret[m] = prev[n].dog
          /\ \A name \in QueryNames :
               SameIgnoringCase(name, last.q)
                 => /\ search_dog_by_name(prev, name).status = last.status
                    /\ search_dog_by_name(prev, name).ret = last.ret

\* a query in another case than the stored name finds the record, and not the
\* record of another name
C8_Witness ==
  /\ Served("search_dog_by_name")
  /\ last.q = RexUpper
  /\ last.status = "ok"
  /\ Len(last.ret) = 1
  /\ last.ret[1].name = StrV(Rex)
  /\ Len(prev) = 2

\* C9: filter by kind returns the live records of that kind, and an empty
\* list, never an error, when there is none.
C9_FilterByKind ==
  Served("get_dogs")
    => LET hit == {n \in 1..Len(prev) : prev[n].dog.kind = StrV(last.q)}
       IN /\ last.status = "ok"
          /\ Len(last.ret) = Cardinality(hit)
          /\ \A n \in hit : \E m \in 1..Len(last.ret) : last.ret[m] = prev[n].dog
          /\ \A m \in 1..Len(last.ret) : last.ret[m].kind = StrV(last.q)

\* one terrier and one bulldog are stored and the filter returns the terrier
C9_Witness ==
  /\ Served("get_dogs")
  /\ last.q = terrier
  /\ Len(prev) = 2
  /\ Len(last.ret) = 1
  /\ last.ret[1].kind = StrV(terrier)

\* C10: update of an absent pk fails with NotFound whatever the patch holds;
\* update of a present pk with a patch holding an unrecognized key fails with
\* InvalidField; the store is unchanged by both failures.
C10_UpdateFailures ==
  Served("update_dog")
    => /\ ~Has(prev, last.pk) => (last.status = "NotFound" /\ DB_DOGS = prev)
       /\ (Has(prev, last.pk) /\ NamesUnrecognized(last.update_data))
            => last.status = "InvalidField"
       /\ last.status \in {"NotFound", "InvalidField"} => DB_DOGS = prev

(* ------------------- claims on update and identifiers ----------------- *)

\* every key of the patch is a field of Dog
AllRecognized(update_data) ==
  \A n \in 1..Len(update_data) : update_data[n].key \in DogFields

\* C11: in an update of an existing record by a patch of recognized keys, a
\* key with a non-null value overwrites its field with that value and a key
\* with a null value leaves its field as it was; a patch of null values only
\* succeeds and returns the record unchanged.
C11_NonNullOverwritesNullKeeps ==
  (Served("update_dog") /\ Has(prev, last.pk) /\ AllRecognized(last.update_data))
    => /\ last.status = "ok"
       /\ last.ret = <<Get(DB_DOGS, last.pk)>>
       /\ \A n \in 1..Len(last.update_data) :
            LET key == last.update_data[n].key
                value == last.update_data[n].value
            IN IF value = NoneV
                 THEN Get(DB_DOGS, last.pk)[key] = Get(prev, last.pk)[key]
                 ELSE Get(DB_DOGS, last.pk)[key] = value
       /\ (\A n \in 1..Len(last.update_data) : last.update_data[n].value = NoneV)
            => (last.ret = <<Get(prev, last.pk)>> /\ DB_DOGS = prev)

\* a patch with a null owner and a non-null age updated a record that has an
\* owner
C11_Witness ==
  /\ Served("update_dog")
  /\ last.status = "ok"
  /\ Len(last.update_data) = 2
  /\ last.update_data[1] = Item("owner", NoneV)
  /\ last.update_data[2].value # NoneV
  /\ Get(prev, last.pk).owner = StrV(Ann)
  /\ Get(prev, last.pk).age = IntV(3)


\* C12: the identifier of every live record is a positive integer.
C12_IdentifiersPositive ==
  \A n \in 1..Len(DB_DOGS) :
    /\ DB_DOGS[n].dog.pk.t = "int"
    /\ DB_DOGS[n].dog.pk.i > 0
    /\ DB_DOGS[n].key > 0

\* C13: create never fails: it stores a record and returns it.
C13_CreateAlwaysSucceeds ==
  Served("create_dog")
    => /\ last.status = "ok"
       /\ Len(last.ret) = 1
       /\ \E n \in 1..Len(DB_DOGS) : DB_DOGS[n].dog = last.ret[1]

\* C15: every live record is stored under the key that its identifier field
\* holds, so that a lookup that succeeds returns a record of the pk asked
\* for, and no update changes the identifier of a record.
C15_KeyIsIdentifier ==
  /\ \A n \in 1..Len(DB_DOGS) : DB_DOGS[n].dog.pk = IntV(DB_DOGS[n].key)
  /\ (Served("get_dog_by_pk") /\ last.status = "ok")
       => last.ret[1].pk = IntV(last.pk)
  /\ (Served("update_dog") /\ Has(prev, last.pk) /\ Has(DB_DOGS, last.pk))
       => Get(DB_DOGS, last.pk).pk = Get(prev, last.pk).pk

\* C17: a create with a client-supplied pk of a live record succeeds and
\* replaces that record: as many records are live as before, the record under
\* the pk holds the input's values and the others are as they were.  A create
\* with pk 0 is served as the same create without pk: nothing is stored under
\* 0, and the pk it returns is assigned by the store.
C17_CreateReplacesAndZeroIsOmitted ==
  Served("create_dog")
    => LET dog == last.dog[1]
       IN /\ (dog.pk.t = "int" /\ dog.pk.i # 0 /\ Has(prev, dog.pk.i))
               => /\ last.status = "ok"
                  /\ Len(DB_DOGS) = Len(prev)
                  /\ Keys(DB_DOGS) = Keys(prev)
                  /\ last.ret = <<Get(DB_DOGS, dog.pk.i)>>
                  /\ \A f \in DogFields : Get(DB_DOGS, dog.pk.i)[f] = dog[f]
                  /\ \A k \in Keys(prev) \ {dog.pk.i} : Get(DB_DOGS, k) = Get(prev, k)
          /\ dog.pk = IntV(0)
               => LET omitted == create_dog(prev, [dog EXCEPT !.pk = NoneV])
                  IN /\ last.status = omitted.status
                     /\ last.ret = omitted.ret
                     /\ DB_DOGS = omitted.db
                     /\ ~Has(DB_DOGS, 0)
                     /\ last.status = "ok"
                          => /\ last.ret[1].pk.i >= 1
                             /\ ~Has(prev, last.ret[1].pk.i)

\* a create with the pk of a live record of another name replaced it, beside
\* a second record
C17_Witness ==
  /\ Served("create_dog")
  /\ last.status = "ok"
  /\ last.dog[1].pk.t = "int"
  /\ Has(prev, last.dog[1].pk.i)
  /\ Get(prev, last.dog[1].pk.i).name # last.dog[1].name
  /\ Len(prev) = 2
  /\ Len(DB_DOGS) = 2

\* a create with pk 0 into a store that holds a record was assigned a pk
C17_WitnessZero ==
  /\ Served("create_dog")
  /\ last.status = "ok"
  /\ last.dog[1].pk = IntV(0)
  /\ prev # <<>>

\* the handlers that read
ReadOps == {"root", "get_dogs", "search_dog_by_name", "get_dog_by_pk"}

\* C18: list, filter by kind, search by name and lookup leave the store as it
\* was, whether they succeed or fail; so does every request that fails with
\* NotFound.
C18_ReadsAndNotFoundChangeNothing ==
  /\ last.op \in ReadOps => DB_DOGS = prev
  /\ last.status = "NotFound" => DB_DOGS = prev

\* an update of an absent pk failed with NotFound on a store that holds a record
C18_Witness ==
  /\ Served("update_dog")
  /\ last.status = "NotFound"
  /\ prev # <<>>
  /\ DB_DOGS = prev

(* ------------- the order of the list against the history ------------- *)

\* order.born holds the keys of the live records in the order in which the
\* creates stored these records; order.keyed holds them in the order in which
\* the keys entered the dict.  A create of a live key stores a new record
\* under a key that stays where it is.

Without(keys, k) == SelectSeq(keys, LAMBDA j : j # k)

CreateListed ==
  \E dog \in InputDogs :
    LET r == create_dog(DB_DOGS, dog)
        k == r.ret[1].pk.i
    IN /\ Serve("create_dog", 0, <<dog>>, <<>>, <<>>, r)
       /\ order' = IF r.status = "ok"
                     THEN [born |-> Append(Without(order.born, k), k),
                           keyed |-> IF Has(DB_DOGS, k)
                                       THEN order.keyed
                                       ELSE Append(order.keyed, k)]
                     ELSE order
       /\ UNCHANGED autoIds

DeleteListed ==
  \E pk \in PathPks :
    LET r == delete_dog(DB_DOGS, pk)
    IN /\ Serve("delete_dog", pk, <<>>, <<>>, <<>>, r)
       /\ order' = IF r.status = "ok"
                     THEN [born |-> Without(order.born, pk),
                           keyed |-> Without(order.keyed, pk)]
                     ELSE order
       /\ UNCHANGED autoIds

\* PATCH /dog/{pk} of an age
UpdateListed ==
  /\ \E pk \in PathPks :
       Serve("update_dog", pk, <<>>, <<Item("age", StrV(<<"5">>))>>, <<>>,
             update_dog(DB_DOGS, pk, <<Item("age", StrV(<<"5">>))>>))
  /\ UNCHANGED <<autoIds, order>>

NextList ==
  \/ CreateListed
  \/ DeleteListed
  \/ UpdateListed
  \/ Root

SpecList == Init /\ [][NextList]_vars

\* C14: the list never fails and returns every live record once, in the
\* order in which the records were inserted.
C14_ListInRecordOrder ==
  Served("root")
    => /\ last.status = "ok"
       /\ Len(last.ret) = Len(order.born)
       /\ \A n \in 1..Len(last.ret) : last.ret[n] = Get(prev, order.born[n])

\* C14, amended: the list never fails and returns every live record once, in
\* the order in which their keys entered the store; a record stored by a
\* create of a live pk stands where the record it replaced stood.
C14_ListInKeyOrder ==
  Served("root")
    => /\ last.status = "ok"
       /\ Len(last.ret) = Cardinality(Keys(prev))
       /\ Len(last.ret) = Len(order.keyed)
       /\ \A n \in 1..Len(last.ret) : last.ret[n] = Get(prev, order.keyed[n])
       /\ DB_DOGS = prev

\* the list of a store of two records, the first of which was stored by a
\* create of a live pk after the second
C14_Witness ==
  /\ Served("root")
  /\ Len(last.ret) = 2
  /\ order.born # order.keyed

(* --------------- create_dog served by concurrent workers -------------- *)

\* Each worker serves one POST /dog that omits the pk, in three steps: lines
\* 93-98 compute pk, lines 100-107 store the record, line 109 returns
\* DB_DOGS[pk].  With serialized, a request runs from start to end before
\* the next begins; without it the steps of the workers interleave.

InitRace ==
  /\ DB_DOGS = <<>>
  /\ last = Request("init", 0, <<>>, <<>>, <<>>, Result("ok", <<>>, <<>>))
  /\ prev = <<>>
  /\ autoIds = [last |-> 0, before |-> 0]
  /\ order = [born |-> <<>>, keyed |-> <<>>]
  /\ pc = [w \in Workers |-> "idle"]
  /\ loc = [w \in Workers |-> IdleLoc]
  /\ serialized \in BOOLEAN

\* whether worker w may take the first step of its request
MayBegin(w) ==
  /\ pc[w] = "idle"
  /\ serialized => \A v \in Workers : pc[v] \in {"idle", "done"}

\* create_dog, lines 93-98
CreateCompute(w) ==
  /\ MayBegin(w)
  /\ \E dog \in OmittedDogs :
       loc' = [loc EXCEPT ![w] = [pk |-> ComputePk(DB_DOGS, dog), dog |-> <<dog>>,
                                  ret |-> <<>>]]
  /\ pc' = [pc EXCEPT ![w] = "computed"]
  /\ UNCHANGED <<DB_DOGS, last, prev, autoIds, order, serialized>>

\* create_dog, lines 100-107
CreateStore(w) ==
  /\ pc[w] = "computed"
  /\ DB_DOGS' = Put(DB_DOGS, loc[w].pk, StoredDog(loc[w].pk, loc[w].dog[1]))
  /\ pc' = [pc EXCEPT ![w] = "stored"]
  /\ UNCHANGED <<loc, last, prev, autoIds, order, serialized>>

\* create_dog, line 109
CreateReturn(w) ==
  /\ pc[w] = "stored"
  /\ loc' = [loc EXCEPT ![w].ret = <<Get(DB_DOGS, loc[w].pk)>>]
  /\ pc' = [pc EXCEPT ![w] = "done"]
  /\ UNCHANGED <<DB_DOGS, last, prev, autoIds, order, serialized>>

NextRace ==
  \/ \E w \in Workers : CreateCompute(w)
  \/ \E w \in Workers : CreateStore(w)
  \/ \E w \in Workers : CreateReturn(w)

SpecRace == InitRace /\ [][NextRace]_vars

\* the workers whose request has returned
Returned == {w \in Workers : pc[w] = "done"}

\* the workers whose request has stored its record
Stored == {w \in Workers : pc[w] \in {"stored", "done"}}

\* two requests returned the same pk
SamePkReturned(v, w) ==
  /\ v # w
  /\ v \in Returned
  /\ w \in Returned
  /\ loc[v].ret[1].pk = loc[w].ret[1].pk

\* C4: two creates that omit the pk return the same pk only when their steps
\* interleave, and then one record is stored under that pk, so that the store
\* holds fewer records than creates have stored; when each create runs from
\* start to end, the creates return distinct pks and every record is stored.
C4_SamePkOnlyWhenInterleaved ==
  /\ \A v, w \in Workers :
       SamePkReturned(v, w)
         => /\ ~serialized
            /\ Cardinality({n \in 1..Len(DB_DOGS) : DB_DOGS[n].key = loc[v].pk}) = 1
            /\ Len(DB_DOGS) < Cardinality(Stored)
  /\ serialized => Len(DB_DOGS) = Cardinality(Stored)

\* two interleaved creates returned pk 1, and one record is stored
C4_Witness ==
  /\ ~serialized
  /\ \E v, w \in Workers :
       /\ SamePkReturned(v, w)
       /\ loc[v].ret[1].pk = IntV(1)
       /\ loc[v].dog # loc[w].dog
  /\ Len(DB_DOGS) = 1

(* -------- update_dog and delete_dog served by concurrent workers ------ *)

\* The store is filled by creates while no worker is busy.  Each worker then
\* serves one PATCH /dog/{pk} or one DELETE /dog/{pk}, statement by
\* statement.  update_dog: line 153 checks the key, line 159 reads
\* current_dog, lines 162-172 validate the keys and assign to current_dog,
\* line 174 writes it back, line 176 returns.  delete_dog: line 185 checks the
\* key, line 192 pops it, line 194 returns.  With serialized, a request runs
\* from start to end before the next begins.

\* the patches of the concurrent updates
RacePatches ==
  { <<Item("age", StrV(<<"5">>))>>,
    <<Item("unknown_field", StrV(<<"x">>))>> }

\* the bodies of the creates that fill the store
SeedDogs == {dog \in OmittedDogs : dog.name = StrV(Rex)}

\* the locals of a request: op, pk, update_data, current_dog or deleted_dog
\* (dog), the response (status, ret), and whether line 174 stored under a
\* key that was absent
Locals(op, pk, update_data) ==
  [op |-> op, pk |-> pk, update_data |-> update_data, dog |-> <<>>,
   status |-> "", ret |-> <<>>, readded |-> FALSE]

\* POST /dog before the concurrent requests arrive
Seed ==
  /\ \A w \in Workers : pc[w] = "idle"
  /\ \E dog \in SeedDogs :
       LET r == create_dog(DB_DOGS, dog)
       IN /\ InBounds(r.db)
          /\ DB_DOGS' = r.db
  /\ UNCHANGED <<last, prev, autoIds, order, pc, loc, serialized>>

\* the workers are interchangeable: the next request goes to the idle worker
\* of the lowest number
NextIdle(w) ==
  /\ MayBegin(w)
  /\ \A v \in Workers : v < w => pc[v] # "idle"

\* a worker ends its request with a response
Respond(w, status, dog, ret) ==
  /\ pc' = [pc EXCEPT ![w] = "done"]
  /\ loc' = [loc EXCEPT ![w].status = status, ![w].dog = dog, ![w].ret = ret]

\* update_dog, lines 153-157
UpdateCheck(w) ==
  /\ NextIdle(w)
  /\ DB_DOGS # <<>>
  /\ \E pk \in PathPks, update_data \in RacePatches :
       IF Has(DB_DOGS, pk)
         THEN /\ pc' = [pc EXCEPT ![w] = "update_checked"]
              /\ loc' = [loc EXCEPT ![w] = Locals("update_dog", pk, update_data)]
         ELSE /\ pc' = [pc EXCEPT ![w] = "done"]
              /\ loc' = [loc EXCEPT ![w] =
                           [Locals("update_dog", pk, update_data)
                              EXCEPT !.status = "NotFound"]]
  /\ UNCHANGED <<DB_DOGS, last, prev, autoIds, order, serialized>>

\* update_dog, line 159: DB_DOGS[pk] raises KeyError when the key has gone
UpdateRead(w) ==
  /\ pc[w] = "update_checked"
  /\ IF Has(DB_DOGS, loc[w].pk)
       THEN /\ pc' = [pc EXCEPT ![w] = "update_read"]
            /\ loc' = [loc EXCEPT ![w].dog = <<Get(DB_DOGS, loc[w].pk)>>]
       ELSE Respond(w, "InternalError", <<>>, <<>>)
  /\ UNCHANGED <<DB_DOGS, last, prev, autoIds, order, serialized>>

\* update_dog, lines 162-172: current_dog is the stored object while the key
\* is in the dict, and the popped object after a delete
UpdateAssign(w) ==
  /\ pc[w] = "update_read"
  /\ LET invalid_keys == SelectSeq(loc[w].update_data, LAMBDA item : ~HasAttr(item.key))
         done == ApplyItems(loc[w].dog[1], loc[w].update_data, 1)
     IN IF invalid_keys # <<>>
          THEN /\ Respond(w, "InvalidField", loc[w].dog, <<>>)
               /\ UNCHANGED DB_DOGS
          ELSE /\ DB_DOGS' = IF Has(DB_DOGS, loc[w].pk)
                               THEN Put(DB_DOGS, loc[w].pk, done.dog)
                               ELSE DB_DOGS
               /\ IF done.raised
                    THEN Respond(w, "InternalError", <<done.dog>>, <<>>)
                    ELSE /\ pc' = [pc EXCEPT ![w] = "update_assigned"]
                         /\ loc' = [loc EXCEPT ![w].dog = <<done.dog>>]
  /\ UNCHANGED <<last, prev, autoIds, order, serialized>>

\* update_dog, line 174
UpdateWrite(w) ==
  /\ pc[w] = "update_assigned"
  /\ DB_DOGS' = Put(DB_DOGS, loc[w].pk, loc[w].dog[1])
  /\ pc' = [pc EXCEPT ![w] = "update_written"]
  /\ loc' = [loc EXCEPT ![w].readded = ~Has(DB_DOGS, loc[w].pk)]
  /\ UNCHANGED <<last, prev, autoIds, order, serialized>>

\* update_dog, line 176
UpdateReturn(w) ==
  /\ pc[w] = "update_written"
  /\ Respond(w, "ok", loc[w].dog, loc[w].dog)
  /\ UNCHANGED <<DB_DOGS, last, prev, autoIds, order, serialized>>

\* delete_dog, lines 185-189
DeleteCheck(w) ==
  /\ NextIdle(w)
  /\ DB_DOGS # <<>>
  /\ \E pk \in PathPks :
       IF Has(DB_DOGS, pk)
         THEN /\ pc' = [pc EXCEPT ![w] = "delete_checked"]
              /\ loc' = [loc EXCEPT ![w] = Locals("delete_dog", pk, <<>>)]
         ELSE /\ pc' = [pc EXCEPT ![w] = "done"]
              /\ loc' = [loc EXCEPT ![w] =
                           [Locals("delete_dog", pk, <<>>) EXCEPT !.status = "NotFound"]]
  /\ UNCHANGED <<DB_DOGS, last, prev, autoIds, order, serialized>>

\* delete_dog, lines 192-194: DB_DOGS.pop(pk) raises KeyError when the key
\* has gone
DeletePop(w) ==
  /\ pc[w] = "delete_checked"
  /\ IF Has(DB_DOGS, loc[w].pk)
       THEN /\ Respond(w, "ok", <<Get(DB_DOGS, loc[w].pk)>>, <<Get(DB_DOGS, loc[w].pk)>>)
            /\ DB_DOGS' = Pop(DB_DOGS, loc[w].pk)
       ELSE /\ Respond(w, "InternalError", <<>>, <<>>)
            /\ UNCHANGED DB_DOGS
  /\ UNCHANGED <<last, prev, autoIds, order, serialized>>

NextUndo ==
  \/ Seed
  \/ \E w \in Workers : UpdateCheck(w)
  \/ \E w \in Workers : UpdateRead(w)
  \/ \E w \in Workers : UpdateAssign(w)
  \/ \E w \in Workers : UpdateWrite(w)
  \/ \E w \in Workers : UpdateReturn(w)
  \/ \E w \in Workers : DeleteCheck(w)
  \/ \E w \in Workers : DeletePop(w)

SpecUndo == InitRace /\ [][NextUndo]_vars

\* a DELETE /dog/{pk} has answered with the removed record
Removed(pk) ==
  \E w \in Workers :
    /\ pc[w] = "done"
    /\ loc[w].op = "delete_dog"
    /\ loc[w].status = "ok"
    /\ loc[w].pk = pk

\* the write-back of an update by worker u stored its record under a key that
\* was no longer in the dict
Readded(u, pk) ==
  /\ pc[u] \in {"update_written", "done"}
  /\ loc[u].op = "update_dog"
  /\ loc[u].pk = pk
  /\ loc[u].readded

\* C16: with no create after the deletes, a record whose delete has answered
\* is in the store again only when the requests were not served one at a
\* time and the write-back of an update that had read the record before the
\* delete put it back; such a write-back happens only after a delete of that
\* record has answered, and never when each request runs from start to end
\* alone.
C16_DeleteUndoneOnlyByRacingUpdate ==
  /\ \A pk \in PathPks :
       Removed(pk) /\ Has(DB_DOGS, pk)
         => /\ ~serialized
            /\ \E u \in Workers :
                 /\ Readded(u, pk)
                 /\ Get(DB_DOGS, pk) = loc[u].dog[1]
  /\ \A u \in Workers, pk \in PathPks :
       Readded(u, pk) => ~serialized /\ Removed(pk)

\* an update and a delete of the same record have both answered with success
\* and the deleted record is in the store, as the update returned it
C16_Witness ==
  /\ ~serialized
  /\ \A w \in Workers : pc[w] \in {"idle", "done"}
  /\ \E u \in Workers, pk \in PathPks :
       /\ Readded(u, pk)
       /\ pc[u] = "done"
       /\ loc[u].status = "ok"
       /\ Removed(pk)
       /\ Has(DB_DOGS, pk)
       /\ <<Get(DB_DOGS, pk)>> = loc[u].ret

====
